---- MODULE Spec2Model ----
(***************************************************************************)
(* SBAT revocations (sbat/src/revocations.rs).                             *)
(*                                                                         *)
(* A Revocations value owns a bounded storage of Components and an         *)
(* optional date.  The input of parse is given as the sequence of its CSV  *)
(* records, each record the sequence of its comma separated fields, each   *)
(* field a sequence of ASCII characters.  An Option is a sequence of       *)
(* length 0 (None) or 1 (Some).                                            *)
(***************************************************************************)
EXTENDS Integers, Sequences, FiniteSets, TLC

VARIABLES components, date, capacity, lastOp, arg, ret

vars == <<components, date, capacity, lastOp, arg, ret>>

\* Bounds of the model.
MaxCap == 2
MaxGen == 2
MaxRecords == 2
MaxEntries == 2

MAX_HEADER_FIELDS == 3

None == <<>>
Some(x) == <<x>>

Names == {<<"a">>, <<"b">>}
Generations == 1..MaxGen

\* Component { name, generation }
Component == [name : Names, generation : Generations]

\* Entry { component, vendor }; the vendor is not used by the verdict.
Entry == [component : Component, vendor : {"default"}]

RECURSIVE SeqsUpTo(_, _)
SeqsUpTo(S, n) ==
    IF n = 0 THEN {<<>>}
    ELSE LET shorter == SeqsUpTo(S, n - 1)
         IN  shorter \cup {Append(s, x) : s \in {t \in shorter : Len(t) = n - 1}, x \in S}

\* Caller-supplied storage: a bounded sequence with a fixed capacity.
Storages ==
    {[items |-> s, capacity |-> c] :
        s \in SeqsUpTo(Component, MaxCap), c \in 0..MaxCap} \
    {st \in [items : SeqsUpTo(Component, MaxCap), capacity : 0..MaxCap] :
        Len(st.items) > st.capacity}

\* Storages as the tests build them: one capacity for all.
FullCapStorages == {st \in Storages : st.capacity = MaxCap}

\* The records the inputs are made of.
Records ==
    { << <<"a">> >>,
      << <<"a">>, <<"1">> >>,
      << <<"a">>, <<"2">> >>,
      << <<"b">>, <<"1", "2">> >>,
      << <<"b">>, <<"x">> >>,
      << <<"a">>, <<"2">>, <<"d">> >> }

Inputs == SeqsUpTo(Records, MaxRecords)

Metadatas == SeqsUpTo(Entry, MaxEntries)

-----------------------------------------------------------------------------
\* csv::Record and Veclike

DigitChars == {"0", "1", "2", "3", "4", "5", "6", "7", "8", "9"}

DigitValue(ch) ==
    CASE ch = "0" -> 0 [] ch = "1" -> 1 [] ch = "2" -> 2 [] ch = "3" -> 3
      [] ch = "4" -> 4 [] ch = "5" -> 5 [] ch = "6" -> 6 [] ch = "7" -> 7
      [] ch = "8" -> 8 [] ch = "9" -> 9

RECURSIVE Base10(_, _)
Base10(field, acc) ==
    IF field = <<>> THEN acc
    ELSE Base10(Tail(field), acc * 10 + DigitValue(Head(field)))

\* A field as a Generation: a base-10 unsigned integer.  The fields of
\* Records have at most two digits, far below the 32-bit limit.
ParseGeneration(field) ==
    IF field # <<>> /\ \A i \in 1..Len(field) : field[i] \in DigitChars
    THEN Some(Base10(field, 0))
    ELSE None

GetField(record, index) ==
    IF index < Len(record) /\ index < MAX_HEADER_FIELDS
    THEN Some(record[index + 1])
    ELSE None

\* Result<Option<Generation>>
GetFieldAsGeneration(record, index) ==
    LET f == GetField(record, index)
    IN  IF f = None THEN [err |-> "Ok", val |-> None]
        ELSE IF ParseGeneration(f[1]) = None
             THEN [err |-> "InvalidGeneration", val |-> None]
             ELSE [err |-> "Ok", val |-> ParseGeneration(f[1])]

Clear(items) == <<>>

TryPush(items, cap, item) ==
    IF Len(items) < cap
    THEN [items |-> Append(items, item), err |-> "Ok"]
    ELSE [items |-> items, err |-> "TooManyRecords"]

-----------------------------------------------------------------------------
\* Revocations

Self == [components |-> components, date |-> date, capacity |-> capacity]

\* Variant: new clears the storage it is given.
NewClears(storage) ==
    [components |-> <<>>, date |-> None, capacity |-> storage.capacity]

New(storage) ==
    [components |-> storage.items, date |-> None, capacity |-> storage.capacity]

\* Variant: the closure drops the result of try_push and reports success.
ParseHandlerIgnoresFull(env, record) ==
    LET date1 == IF env.first THEN GetField(record, 2) ELSE env.self.date
        self1 == [env.self EXCEPT !.date = date1]
        env1  == [self |-> self1, first |-> FALSE]
        name  == GetField(record, 0)
        gen   == GetFieldAsGeneration(record, 1)
    IN  IF name = None THEN [env |-> env1, ret |-> "TooFewFields"]
        ELSE IF gen.err # "Ok" THEN [env |-> env1, ret |-> gen.err]
        ELSE IF gen.val = None THEN [env |-> env1, ret |-> "TooFewFields"]
        ELSE LET p == TryPush(self1.components, self1.capacity,
                              [name |-> name[1], generation |-> gen.val[1]])
             IN  [env |-> [env1 EXCEPT !.self.components = p.items],
                  ret |-> "Ok"]

\* Variant: a missing generation field becomes the default generation.
ParseHandlerDefaultGeneration(env, record) ==
    LET date1 == IF env.first THEN GetField(record, 2) ELSE env.self.date
        self1 == [env.self EXCEPT !.date = date1]
        env1  == [self |-> self1, first |-> FALSE]
        name  == GetField(record, 0)
        gen   == GetFieldAsGeneration(record, 1)
    IN  IF name = None THEN [env |-> env1, ret |-> "TooFewFields"]
        ELSE IF gen.err # "Ok" THEN [env |-> env1, ret |-> gen.err]
        ELSE LET g == IF gen.val = None THEN 0 ELSE gen.val[1]
                 p == TryPush(self1.components, self1.capacity,
                              [name |-> name[1], generation |-> g])
             IN  [env |-> [env1 EXCEPT !.self.components = p.items],
                  ret |-> p.err]

\* The closure passed to parse_csv; env is the captured state (self, first).
ParseHandler(env, record) ==
    LET date1 == IF env.first THEN GetField(record, 2) ELSE env.self.date
        self1 == [env.self EXCEPT !.date = date1]
        env1  == [self |-> self1, first |-> FALSE]
        name  == GetField(record, 0)
        gen   == GetFieldAsGeneration(record, 1)
    IN  IF name = None THEN [env |-> env1, ret |-> "TooFewFields"]
        ELSE IF gen.err # "Ok" THEN [env |-> env1, ret |-> gen.err]
        ELSE IF gen.val = None THEN [env |-> env1, ret |-> "TooFewFields"]
        ELSE LET p == TryPush(self1.components, self1.capacity,
                              [name |-> name[1], generation |-> gen.val[1]])
             IN  [env |-> [env1 EXCEPT !.self.components = p.items],
                  ret |-> p.err]

\* One forward pass over the records; the first error aborts.
RECURSIVE ParseCsv(_, _, _)
ParseCsv(env, input, i) ==
    IF i > Len(input) THEN [env |-> env, ret |-> "Ok"]
    ELSE LET r == ParseHandler(env, input[i])
         IN  IF r.ret # "Ok" THEN r ELSE ParseCsv(r.env, input, i + 1)

\* Variant: parse does not clear the components first.
ParseNoClear(self, input) ==
    LET r == ParseCsv([self |-> self, first |-> TRUE], input, 1)
    IN  [self |-> r.env.self, ret |-> r.ret]

\* Variant: parse restores the earlier components when the parser fails.
ParseRollback(self, input) ==
    LET cleared == [self EXCEPT !.components = Clear(self.components)]
        r == ParseCsv([self |-> cleared, first |-> TRUE], input, 1)
    IN  IF r.ret = "Ok"
        THEN [self |-> r.env.self, ret |-> r.ret]
        ELSE [self |-> [r.env.self EXCEPT !.components = self.components],
              ret |-> r.ret]

Parse(self, input) ==
    LET cleared == [self EXCEPT !.components = Clear(self.components)]
        r == ParseCsv([self |-> cleared, first |-> TRUE], input, 1)
    IN  [self |-> r.env.self, ret |-> r.ret]

Date(self) == self.date

RevokedComponents(self) == self.components

\* Variant: a generation equal to the threshold counts as revoked.
IsComponentRevokedLe(self, input) ==
    \E i \in 1..Len(self.components) :
        /\ input.name = self.components[i].name
        /\ input.generation <= self.components[i].generation

\* Variant: the names are not compared.
IsComponentRevokedAnyName(self, input) ==
    \E i \in 1..Len(self.components) :
        input.generation < self.components[i].generation

\* Variant: only the first stored entry with the name is compared.
IsComponentRevokedFirstMatch(self, input) ==
    \E i \in 1..Len(self.components) :
        /\ input.name = self.components[i].name
        /\ \A j \in 1..(i - 1) : input.name # self.components[j].name
        /\ input.generation < self.components[i].generation

IsComponentRevoked(self, input) ==
    \E i \in 1..Len(self.components) :
        /\ input.name = self.components[i].name
        /\ input.generation < self.components[i].generation

\* Iterator::find: the index of the first revoked entry from i on, or 0.
RECURSIVE FindRevoked(_, _, _)
FindRevoked(self, entries, i) ==
    IF i > Len(entries) THEN 0
    ELSE IF IsComponentRevoked(self, entries[i].component) THEN i
    ELSE FindRevoked(self, entries, i + 1)

\* Iterator::rfind: the index of the last revoked entry up to i, or 0.
RECURSIVE RFindRevoked(_, _, _)
RFindRevoked(self, entries, i) ==
    IF i = 0 THEN 0
    ELSE IF IsComponentRevoked(self, entries[i].component) THEN i
    ELSE RFindRevoked(self, entries, i - 1)

\* Variant: the last revoked entry is reported.
ValidateMetadataLast(self, metadata) ==
    LET k == RFindRevoked(self, metadata, Len(metadata))
    IN  IF k # 0
        THEN [kind |-> "Revoked", index |-> k, entry |-> metadata[k]]
        ELSE [kind |-> "Allowed"]

ValidateMetadata(self, metadata) ==
    LET k == FindRevoked(self, metadata, 1)
    IN  IF k # 0
        THEN [kind |-> "Revoked", index |-> k, entry |-> metadata[k]]
        ELSE [kind |-> "Allowed"]

-----------------------------------------------------------------------------
\* The state machine

Init ==
    \E storage \in Storages :
        /\ components = New(storage).components
        /\ date = New(storage).date
        /\ capacity = New(storage).capacity
        /\ lastOp = "new"
        /\ arg = storage
        /\ ret = "Self"

CallParse ==
    \E input \in Inputs :
        LET r == Parse(Self, input)
        IN  /\ components' = r.self.components
            /\ date' = r.self.date
            /\ capacity' = r.self.capacity
            /\ lastOp' = "parse"
            /\ arg' = input
            /\ ret' = r.ret

CallDate ==
    /\ lastOp' = "date"
    /\ arg' = "self"
    /\ ret' = Date(Self)
    /\ UNCHANGED <<components, date, capacity>>

CallRevokedComponents ==
    /\ lastOp' = "revoked_components"
    /\ arg' = "self"
    /\ ret' = RevokedComponents(Self)
    /\ UNCHANGED <<components, date, capacity>>

CallIsComponentRevoked ==
    \E input \in Component :
        /\ lastOp' = "is_component_revoked"
        /\ arg' = input
        /\ ret' = IsComponentRevoked(Self, input)
        /\ UNCHANGED <<components, date, capacity>>

CallValidateMetadata ==
    \E metadata \in Metadatas :
        /\ lastOp' = "validate_metadata"
        /\ arg' = metadata
        /\ ret' = ValidateMetadata(Self, metadata)
        /\ UNCHANGED <<components, date, capacity>>

Next ==
    \/ CallParse
    \/ CallDate
    \/ CallRevokedComponents
    \/ CallIsComponentRevoked

Spec == Init /\ [][Next]_vars

\* The queries of a pre-seeded store.
InitValidate ==
    \E storage \in FullCapStorages :
        /\ components = New(storage).components
        /\ date = New(storage).date
        /\ capacity = New(storage).capacity
        /\ lastOp = "new"
        /\ arg = storage
        /\ ret = "Self"

NextValidate == CallValidateMetadata

SpecValidate == InitValidate /\ [][NextValidate]_vars

-----------------------------------------------------------------------------
\* Properties

\* The stored entries whose name is the name of the component c.
EntriesNamed(c) == {i \in 1..Len(components) : components[i].name = c.name}

Thresholds(c) == {components[i].generation : i \in EntriesNamed(c)}

MaxOf(S) == CHOOSE t \in S : \A u \in S : u <= t

\* A record the closure accepts: name, and a generation that parses.
WellFormed(record) ==
    Len(record) >= 2 /\ ParseGeneration(record[2]) # None

ComponentOf(record) ==
    [name |-> record[1], generation |-> ParseGeneration(record[2])[1]]

ComponentsOf(records) ==
    [i \in 1..Len(records) |-> ComponentOf(records[i])]

DateOf(input) ==
    IF input = <<>> \/ Len(input[1]) < 3 THEN None ELSE Some(input[1][3])

\* The record at which parse stops: the first that is malformed or that
\* no longer fits; 0 if there is none.
Fails(input, k) == ~WellFormed(input[k]) \/ k > capacity

FailingIndex(input) ==
    IF \E k \in 1..Len(input) : Fails(input, k)
    THEN CHOOSE k \in 1..Len(input) :
            Fails(input, k) /\ \A j \in 1..(k - 1) : ~Fails(input, j)
    ELSE 0

\* C1 (as stated): for every stored entry (name, threshold) and every gen,
\* is_component_revoked((name, gen)) is true when gen < threshold and false
\* when gen >= threshold.
C1_RevokedIffBelowEachThreshold ==
    lastOp = "is_component_revoked" =>
        \A i \in EntriesNamed(arg) :
            ret = (arg.generation < components[i].generation)

\* C1 (amended): for every stored entry (name, threshold),
\* is_component_revoked((name, gen)) is true when gen < threshold, and it is
\* false when gen >= threshold provided no other stored entry with the same
\* name has a threshold above gen.
C1_RevokedBelowThreshold ==
    lastOp = "is_component_revoked" =>
        \A i \in EntriesNamed(arg) :
            /\ arg.generation < components[i].generation => ret = TRUE
            /\ (\A j \in EntriesNamed(arg) :
                    arg.generation >= components[j].generation) => ret = FALSE

C1_Witness ==
    /\ lastOp = "is_component_revoked"
    /\ EntriesNamed(arg) # {}
    /\ \A j \in EntriesNamed(arg) : arg.generation = components[j].generation
    /\ ret = FALSE

\* C2: a component whose name is the name of no stored entry is not revoked,
\* whatever its generation.
C2_AbsentNameAllowed ==
    (lastOp = "is_component_revoked" /\ EntriesNamed(arg) = {}) => ret = FALSE

C2_Witness ==
    /\ lastOp = "is_component_revoked"
    /\ EntriesNamed(arg) = {}
    /\ \E i \in 1..Len(components) : arg.generation < components[i].generation
    /\ ret = FALSE

\* C3: validate_metadata returns Revoked(e) for the entry e at the lowest
\* index whose component is revoked, and Allowed exactly when no entry of the
\* metadata is revoked.
C3_FirstRevokedEntry ==
    lastOp = "validate_metadata" =>
        /\ ret.kind \in {"Allowed", "Revoked"}
        /\ ret.kind = "Revoked" =>
            /\ ret.index \in 1..Len(arg)
            /\ ret.entry = arg[ret.index]
            /\ IsComponentRevoked(Self, arg[ret.index].component)
            /\ \A j \in 1..(ret.index - 1) :
                    ~IsComponentRevoked(Self, arg[j].component)
        /\ ret.kind = "Allowed" <=>
            \A j \in 1..Len(arg) : ~IsComponentRevoked(Self, arg[j].component)

C3_Witness ==
    /\ lastOp = "validate_metadata"
    /\ ret.kind = "Revoked"
    /\ ret.index = 1
    /\ \E j \in 2..Len(arg) :
          /\ IsComponentRevoked(Self, arg[j].component)
          /\ arg[j] # arg[1]

\* C4 (as stated): after parse(input) returns Ok, from any store state,
\* components is exactly the records of input in order and date is the first
\* record's third field or None.
C4_ParseDeterminedByInput ==
    (lastOp = "parse" /\ ret = "Ok") =>
        /\ components = ComponentsOf(arg)
        /\ date = DateOf(arg)

\* C5: parsing the same input a second time leaves the result, the
\* components and the date of the first time.
C5_ParseIdempotent ==
    lastOp = "parse" =>
        /\ Parse(Self, arg).ret = ret
        /\ Parse(Self, arg).self.components = components
        /\ Parse(Self, arg).self.date = date

C5_Witness ==
    /\ lastOp = "parse"
    /\ ret = "Ok"
    /\ Len(components) = 2
    /\ date # None

\* C6: new keeps the storage it is given and sets date to None; an operation
\* other than parse leaves the components as they are.
C6_NewKeepsOnlyParseClears ==
    /\ [](lastOp = "new" =>
            /\ RevokedComponents(Self) = arg.items
            /\ Date(Self) = None)
    /\ [][lastOp' # "parse" => components' = components]_vars

C6_Witness ==
    /\ lastOp = "new"
    /\ Len(RevokedComponents(Self)) = 2

\* C7 (as stated): when the input holds more records than the storage can
\* hold, parse returns Err(TooManyRecords), and it never returns Ok with
\* fewer components than records.
C7_TooManyRecords ==
    lastOp = "parse" =>
        /\ Len(arg) > capacity => ret = "TooManyRecords"
        /\ ret = "Ok" => Len(components) = Len(arg)

\* C7 (amended): when the input holds more records than the storage can
\* hold, parse returns an error, which is TooManyRecords when the records up
\* to and including the first that does not fit are well formed; it never
\* returns Ok with fewer components than records.
C7_TooManyRecordsWellFormed ==
    lastOp = "parse" =>
        /\ Len(arg) > capacity =>
            /\ ret # "Ok"
            /\ (\A k \in 1..(capacity + 1) : WellFormed(arg[k])) =>
                    ret = "TooManyRecords"
        /\ ret = "Ok" => Len(components) = Len(arg)

C7_Witness ==
    /\ lastOp = "parse"
    /\ capacity = 1
    /\ Len(arg) = 2
    /\ ret = "TooManyRecords"
    /\ Len(components) = 1

\* C8: a record with a name and no generation, after well-formed records
\* that fit in the storage, makes parse return Err(TooFewFields); records
\* with name and generation and no date are accepted, and the date is None
\* when the first record is one.
C8_TooFewFields ==
    lastOp = "parse" =>
        /\ \A k \in 1..Len(arg) :
            ( /\ Len(arg[k]) = 1
              /\ k - 1 <= capacity
              /\ \A j \in 1..(k - 1) : WellFormed(arg[j]) )
            => ret = "TooFewFields"
        /\ (Len(arg) >= 1 /\ Len(arg[1]) = 2) => date = None
        /\ ( /\ Len(arg) <= capacity
             /\ \A k \in 1..Len(arg) : WellFormed(arg[k]) /\ Len(arg[k]) = 2 )
            => (ret = "Ok" /\ components = ComponentsOf(arg))

C8_Witness ==
    /\ lastOp = "parse"
    /\ Len(arg) = 2
    /\ Len(arg[1]) = 2
    /\ Len(arg[2]) = 1
    /\ ret = "TooFewFields"
    /\ date = None
    /\ Len(components) = 1

\* C9 (as stated): with several stored entries of one name and different
\* thresholds, is_component_revoked((name, gen)) is gen < the threshold of
\* the first of them in storage order.
C9_FirstEntryGoverns ==
    (lastOp = "is_component_revoked" /\ Cardinality(Thresholds(arg)) > 1) =>
        LET first == CHOOSE i \in EntriesNamed(arg) :
                        \A j \in EntriesNamed(arg) : i <= j
        IN  ret = (arg.generation < components[first].generation)

\* C9 (amended): with several stored entries of one name and different
\* thresholds, is_component_revoked((name, gen)) is gen < the largest of
\* their thresholds, wherever that entry is stored.
C9_LargestThresholdGoverns ==
    (lastOp = "is_component_revoked" /\ Cardinality(Thresholds(arg)) > 1) =>
        ret = (arg.generation < MaxOf(Thresholds(arg)))

C9_Witness ==
    /\ lastOp = "is_component_revoked"
    /\ Cardinality(Thresholds(arg)) > 1
    /\ Len(components) >= 2
    /\ components[1].name = arg.name
    /\ arg.generation >= components[1].generation
    /\ ret = TRUE

\* C10: when parse returns an error, components is exactly the records of
\* the input before the failing one, in order; the earlier components are
\* not restored.
C10_ErrorKeepsPrefix ==
    (lastOp = "parse" /\ ret # "Ok") =>
        /\ FailingIndex(arg) # 0
        /\ components = ComponentsOf(SubSeq(arg, 1, FailingIndex(arg) - 1))

C10_Witness ==
    /\ lastOp = "parse"
    /\ ret # "Ok"
    /\ Len(arg) = 2
    /\ Len(components) = 1

====
